---- MODULE Spec2Model ----
(***************************************************************************)
(* Model of the kilonova application driver: App construction (main.rs),   *)
(* the run loop and its side effects (main.rs), and the recurring-task     *)
(* scheduler (tasks.rs).                                                   *)
(*                                                                         *)
(* Simulated time is counted in ticks of 0.125, a value that f64 adds       *)
(* without rounding.  The wall clock (std::time::Instant) is the integer   *)
(* now.                                                                    *)
(*                                                                         *)
(* Three further specifications stand beside the driver's: ScenarioSpec,   *)
(* one fresh run of the scenario final_time = 1.0 with intervals of 0.25;  *)
(* SchemeSpec, the block tasks of one call of the time-advance engine; and *)
(* JetSpec, the zones of the jet-in-star initial model                     *)
(* (models/jet_in_star.rs).                                                *)
(***************************************************************************)
EXTENDS Integers, Sequences, FiniteSets, TLC

\* ------------------------------------------------------------------------
\* Bounds of the model
\* ------------------------------------------------------------------------
MaxFinal == 3
MaxDt == 2
MaxInterval == 2
MaxFailures == 1

\* Tasks are first due at t = 0.0
StartTime == 0

TaskNames == {"write_checkpoint", "write_products", "iteration_message", "report_progress"}

\* The scenario final_time = 1.0, checkpoint_interval = 0.25, in ticks of 0.125
ScenarioControl == [final_time |-> 8, checkpoint_interval |-> 2, products_interval |-> 2]

\* An interval is whatever number the configuration gives: Control is read
\* as it stands, so a negative interval is taken too.
Intervals == (0 - 1) .. MaxInterval
Controls ==
    [final_time : {MaxFinal}, checkpoint_interval : Intervals, products_interval : Intervals]

\* What the command line names: nothing, a file of an unknown type, a
\* yaml/toml configuration (well formed or not).  A "pk" input only exists
\* once a run has written files; see Resume.
InputKinds == {"none", "unknown", "malformed", "config"}
HydroKinds == {"euler", "relativistic"}
NoFile == [kind |-> "none", index |-> 0]
Inputs ==
    [kind : InputKinds \ {"config"}, file : {NoFile}, mesh_ok : {TRUE}, hydro : {"relativistic"},
     control : {ScenarioControl}]
    \cup [kind : {"config"}, file : {NoFile}, mesh_ok : BOOLEAN, hydro : HydroKinds, control : Controls]

VARIABLES
    input,      \* the input file named on the command line
    pc,         \* position of main: "main", "loop", "advance", "done", "aborted"
    state,      \* App.state: iteration, time, solution
    tasks,      \* App.tasks
    control,    \* App.config.control
    files,      \* the files in the working directory, by name
    now,        \* the wall clock
    oracle,     \* what scheme::advance computes from each state met so far
    hist,       \* history of the execution, for stating properties
    kernel,     \* the blocks and workers of one scheme::advance call
    probe       \* a point of the jet-in-star model and what the model says of it

driver == <<input, pc, state, tasks, control, files, now, oracle, hist>>
vars == <<input, pc, state, tasks, control, files, now, oracle, hist, kernel, probe>>

\* ------------------------------------------------------------------------
\* tasks.rs
\* ------------------------------------------------------------------------
RecurringTask_new(start_time, t) ==
    [count |-> 0, next_time |-> start_time, last_performed |-> t, count_this_run |-> 0]

Tasks_new(start_time, t) ==
    [n \in TaskNames |-> RecurringTask_new(start_time, t)]

\* advance that schedules the task again and does not count the firing
advance_keep_count(self, interval, t) ==
    [count |-> self.count,
     next_time |-> self.next_time + interval,
     last_performed |-> t,
     count_this_run |-> self.count_this_run + 1]

\* advance that schedules the task again and keeps the old timestamp
advance_keep_timestamp(self, interval, t) ==
    [count |-> self.count + 1,
     next_time |-> self.next_time + interval,
     last_performed |-> self.last_performed,
     count_this_run |-> self.count_this_run + 1]

\* advance that marks the task performed and leaves its schedule alone
advance_no_reschedule(self, interval, t) ==
    [count |-> self.count + 1,
     next_time |-> self.next_time,
     last_performed |-> t,
     count_this_run |-> self.count_this_run + 1]

\* RecurringTask::advance; t is the value of Instant::now()
advance(self, interval, t) ==
    [count |-> self.count + 1,
     next_time |-> self.next_time + interval,
     last_performed |-> t,
     count_this_run |-> self.count_this_run + 1]

\* due one tick before the scheduled time
IsDue_early(task, st) == task.next_time <= st.time + 1

\* due only once the scheduled time has been passed
IsDue_strict(task, st) == task.next_time < st.time

\* the condition guarding each task in side_effects
IsDue(task, st) == task.next_time <= st.time

\* ------------------------------------------------------------------------
\* main.rs: App, serialization
\* ------------------------------------------------------------------------
\* State::from_model: the initial model sampled at t = 0
State_from_model == [iteration |-> 0, time |-> 0, solution |-> [gen |-> 0, partial |-> FALSE]]

\* App::package: clones of the state, the tasks and the configuration
package(st, tk, ctl) ==
    [state |-> st, tasks |-> tk, control |-> ctl]

\* serde of RecurringTask: last_performed and count_this_run are skipped
Serialize_task(task) == [count |-> task.count, next_time |-> task.next_time]

\* reading a task back as if count were skipped as well
Deserialize_task_skip_count(rec, t) ==
    [count |-> 0, next_time |-> rec.next_time, last_performed |-> t, count_this_run |-> 0]

\* reading a task back as if count_this_run had been saved with count
Deserialize_task_keep_run_count(rec, t) ==
    [count |-> rec.count, next_time |-> rec.next_time, last_performed |-> t,
     count_this_run |-> rec.count]

\* serde of RecurringTask, reading: the skipped fields take their defaults
Deserialize_task(rec, t) ==
    [count |-> rec.count, next_time |-> rec.next_time, last_performed |-> t, count_this_run |-> 0]

\* a checkpoint that stores the clock of the step to come
Serialize_app_next_iteration(app) ==
    [type |-> "app", state |-> [app.state EXCEPT !.iteration = @ + 1],
     tasks |-> [n \in TaskNames |-> Serialize_task(app.tasks[n])],
     control |-> app.control]

\* serde_pickle::to_writer(&app): the content of a checkpoint file
Serialize_app(app) ==
    [type |-> "app", state |-> app.state,
     tasks |-> [n \in TaskNames |-> Serialize_task(app.tasks[n])],
     control |-> app.control]

\* serde_pickle::from_reader: the App read back from a checkpoint file
Deserialize_app(content, t) ==
    [state |-> content.state,
     tasks |-> [n \in TaskNames |-> Deserialize_task(content.tasks[n], t)],
     control |-> content.control]

\* the content of a products file, derived from the state
Serialize_products(st) == [type |-> "products", state |-> st]

\* a file that was created and not written to the end
Corrupt == [type |-> "corrupt"]

\* File::create followed by to_writer
WriteFile(fs, name, content) ==
    [n \in DOMAIN fs \cup {name} |-> IF n = name THEN content ELSE fs[n]]

\* What the file system does to one write: File::create fails; to_writer
\* fails (a write that overflows the BufWriter); or the bytes still in the
\* BufWriter are lost when it is dropped, which nothing reports.
CheckpointIo == {"ok", "create_fails", "write_fails", "flush_fails"}
ProductsIo == {"ok", "create_fails", "write_fails", "flush_fails"}

\* ------------------------------------------------------------------------
\* main.rs: side_effects
\* st, tk, ctl: the arguments; fs: the files; t: Instant::now();
\* ioCk, ioPr: what the file system does to the checkpoint and products
\* writes, should they happen.
\* ------------------------------------------------------------------------
side_effects(st, tk, ctl, fs, t, ioCk, ioPr) ==
    LET msgDue == IsDue(tk.iteration_message, st)
        tk1 == IF msgDue
               THEN [tk EXCEPT !.iteration_message = advance(tk.iteration_message, 0, t)]
               ELSE tk
        printed == msgDue /\ tk1.iteration_message.count_this_run > 1
        ckDue == IsDue(tk1.write_checkpoint, st)
        tk2 == IF ckDue
               THEN [tk1 EXCEPT !.write_checkpoint =
                        advance(tk1.write_checkpoint, ctl.checkpoint_interval, t)]
               ELSE tk1
        ckName == [kind |-> "chkpt", index |-> tk2.write_checkpoint.count - 1]
        app == package(st, tk2, ctl)
        fs2 == IF ~ckDue \/ ioCk = "create_fails" THEN fs
               ELSE IF ioCk \in {"write_fails", "flush_fails"}
                    THEN WriteFile(fs, ckName, Corrupt)
               ELSE WriteFile(fs, ckName, Serialize_app(app))
        ckErr == ckDue /\ ioCk \in {"create_fails", "write_fails"}
        ev2 == IF ckDue /\ ~ckErr
               THEN <<[kind |-> "chkpt", index |-> ckName.index, time |-> st.time]>>
               ELSE <<>>
        prDue == IsDue(tk2.write_products, st)
        tk3 == IF prDue
               THEN [tk2 EXCEPT !.write_products =
                        advance(tk2.write_products, ctl.products_interval, t)]
               ELSE tk2
        prName == [kind |-> "prods", index |-> tk3.write_products.count - 1]
        fs3 == IF ~prDue \/ ioPr = "create_fails" THEN fs2
               ELSE IF ioPr \in {"write_fails", "flush_fails"}
                    THEN WriteFile(fs2, prName, Corrupt)
               ELSE WriteFile(fs2, prName, Serialize_products(st))
        prErr == prDue /\ ioPr \in {"create_fails", "write_fails"}
        ev3 == IF prDue /\ ~prErr
               THEN <<[kind |-> "prods", index |-> prName.index, time |-> st.time]>>
               ELSE <<>>
        found2 == (IF msgDue THEN {"iteration_message"} ELSE {})
                  \cup (IF ckDue THEN {"write_checkpoint"} ELSE {})
        ckLost == IF ckDue /\ ioCk # "ok" THEN {"write_checkpoint"} ELSE {}
        prLost == IF prDue /\ ioPr # "ok" THEN {"write_products"} ELSE {}
    IN  IF ckErr
        THEN [result |-> "err", tasks |-> tk2, files |-> fs2, printed |-> printed,
              written |-> ev2, found |-> found2, lost |-> ckLost]
        ELSE [result |-> IF prErr THEN "err" ELSE "ok", tasks |-> tk3, files |-> fs3,
              printed |-> printed, written |-> ev2 \o ev3,
              found |-> found2 \cup (IF prDue THEN {"write_products"} ELSE {}),
              lost |-> ckLost \cup prLost]

\* ------------------------------------------------------------------------
\* scheme::advance, as main.rs calls it: the state is updated in place.
\* An outcome is what the step computes from the state it is given: a
\* positive step size, an unphysical cell (which may leave some blocks
\* already updated), or a step size that is not positive.
\* ------------------------------------------------------------------------
Outcomes ==
    [kind : {"ok"}, dt : 1 .. MaxDt, partial : {FALSE}]
    \cup [kind : {"unphysical"}, dt : {0}, partial : {TRUE}]
    \cup [kind : {"zero_dt"}, dt : {0}, partial : {FALSE}]

scheme_advance(st, out) ==
    IF out.kind = "ok"
    THEN [iteration |-> st.iteration + 1,
          time |-> st.time + out.dt,
          solution |-> [gen |-> st.solution.gen + 1, partial |-> st.solution.partial]]
    ELSE [st EXCEPT !.solution.partial = @ \/ out.partial]

\* ------------------------------------------------------------------------
\* History of the execution
\* ------------------------------------------------------------------------
NewProcess(h) ==
    [h EXCEPT !.calls = 0, !.advances = 0, !.events = <<>>, !.printed = 0,
              !.failed = FALSE, !.observed_failed = FALSE, !.found = {},
              !.checked = <<>>, !.lost = {}]

\* the driver's specification leaves the engine's blocks and the model's
\* probe out
NoKernel == [phase |-> "off"]
NoProbe == [zone |-> "none"]

InitHist ==
    [calls |-> 0,            \* side_effects calls made by this process
     advances |-> 0,         \* scheme::advance calls made by this process
     events |-> <<>>,        \* writes this process made and saw no error of, in order
     lost |-> {},            \* tasks whose file the last side_effects call failed to store
     printed |-> 0,          \* iteration messages printed by this process
     checked |-> <<>>,       \* the states side_effects was called on by this process
     found |-> {},           \* <<task, state.time, count>> at each check that found it due
     due_twice |-> FALSE,    \* a task was found due twice with the same time and count
     failed |-> FALSE,       \* a scheme::advance call of this process failed
     observed_failed |-> FALSE, \* side_effects ran after such a failure
     failures |-> 0,         \* failed scheme::advance calls and failed writes so far
     max_step |-> 0,         \* the longest step taken so far
     resumed |-> FALSE,      \* this process was started from a checkpoint
     orig_events |-> <<>>,   \* the files the first process wrote
     orig_done |-> FALSE]    \* the first process returned from run without error

Init ==
    /\ input \in Inputs
    /\ pc = "main"
    /\ state = State_from_model
    /\ tasks = Tasks_new(StartTime, 0)
    /\ control = input.control
    /\ files = <<>>
    /\ now = 0
    /\ oracle = <<>>
    /\ hist = InitHist
    /\ kernel = NoKernel
    /\ probe = NoProbe

\* ------------------------------------------------------------------------
\* main.rs: App::from_config, App::build, main
\* ------------------------------------------------------------------------
\* from_config that does not reject the Euler system
from_config_accept_euler(config, t) ==
    IF ~config.mesh_ok THEN [result |-> "err"]
    ELSE [result |-> "ok", state |-> State_from_model,
          tasks |-> Tasks_new(StartTime, t), control |-> config.control]

\* App::from_config: the result of building an App from a configuration
from_config(config, t) ==
    IF ~config.mesh_ok THEN [result |-> "err"]
    ELSE IF config.hydro = "euler" THEN [result |-> "err"]
    ELSE [result |-> "ok", state |-> State_from_model,
          tasks |-> Tasks_new(StartTime, t), control |-> config.control]

\* App::build: dispatch on the extension of the input file
build(inp, fs, t) ==
    IF inp.kind = "none" THEN [result |-> "err"]
    ELSE IF inp.kind = "config" THEN from_config(inp, t)
    ELSE IF inp.kind = "malformed" THEN [result |-> "err"]
    ELSE IF inp.kind = "pk"
    THEN IF inp.file \in DOMAIN fs /\ fs[inp.file].type = "app"
         THEN LET app == Deserialize_app(fs[inp.file], t)
              IN  [result |-> "ok", state |-> app.state, tasks |-> app.tasks,
                   control |-> app.control]
         ELSE [result |-> "err"]
    ELSE [result |-> "err"]

\* main, up to the call of run
Main ==
    /\ pc = "main"
    /\ LET app == build(input, files, now + 1)
       IN  IF app.result = "ok"
           THEN /\ pc' = "loop"
                /\ state' = app.state
                /\ tasks' = app.tasks
                /\ control' = app.control
           ELSE /\ pc' = "aborted"
                /\ UNCHANGED <<state, tasks, control>>
    /\ now' = now + 1
    /\ UNCHANGED <<input, files, oracle, hist, kernel, probe>>

\* ------------------------------------------------------------------------
\* main.rs: run
\* ------------------------------------------------------------------------
FoundDue(names) == {<<n, state.time, tasks[n].count>> : n \in names}

\* one call of side_effects by run, with the ? on its result
CallSideEffects(next_pc) ==
    \E ioCk \in CheckpointIo, ioPr \in ProductsIo :
        LET r == side_effects(state, tasks, control, files, now + 1, ioCk, ioPr)
        IN  /\ hist.failures + Cardinality(r.lost) <= MaxFailures
            /\ tasks' = r.tasks
            /\ files' = r.files
            /\ pc' = IF r.result = "ok" THEN next_pc ELSE "aborted"
            /\ hist' = [hist EXCEPT !.calls = @ + 1,
                                    !.failures = @ + Cardinality(r.lost),
                                    !.lost = r.lost,
                                    !.events = @ \o r.written,
                                    !.printed = @ + (IF r.printed THEN 1 ELSE 0),
                                    !.checked = Append(@, state),
                                    !.found = @ \cup FoundDue(r.found),
                                    !.due_twice = @ \/ (FoundDue(r.found) \cap hist.found # {}),
                                    !.observed_failed = @ \/ hist.failed]
            /\ now' = now + 1
            /\ UNCHANGED <<input, state, control, oracle, kernel, probe>>

\* the loop body's call of side_effects
LoopSideEffects ==
    /\ pc = "loop"
    /\ state.time < control.final_time
    /\ CallSideEffects("advance")

\* the loop body's call of scheme::advance; its value is not used
LoopAdvance ==
    /\ pc = "advance"
    /\ \E out \in Outcomes :
        /\ state \in DOMAIN oracle => out = oracle[state]
        /\ out.kind # "ok" => hist.failures < MaxFailures
        /\ state' = scheme_advance(state, out)
        /\ oracle' = [s \in DOMAIN oracle \cup {state} |-> IF s = state THEN out ELSE oracle[s]]
        /\ hist' = [hist EXCEPT !.advances = @ + 1,
                                !.failed = @ \/ out.kind # "ok",
                                !.failures = @ + (IF out.kind # "ok" THEN 1 ELSE 0),
                                !.max_step = IF out.dt > @ THEN out.dt ELSE @]
    /\ pc' = "loop"
    /\ UNCHANGED <<input, tasks, control, files, now, kernel, probe>>

\* the call of side_effects after the loop
FinalSideEffects ==
    /\ pc = "loop"
    /\ state.time >= control.final_time
    /\ CallSideEffects("done")

\* the program is started again, on one of the files a run has written
Resume ==
    /\ pc \in {"done", "aborted"}
    /\ ~hist.resumed
    /\ \E f \in DOMAIN files :
        input' = [input EXCEPT !.kind = "pk", !.file = f]
    /\ pc' = "main"
    /\ hist' = [NewProcess(hist) EXCEPT !.resumed = TRUE, !.orig_events = hist.events,
                                        !.orig_done = (pc = "done")]
    /\ UNCHANGED <<state, tasks, control, files, now, oracle, kernel, probe>>

Next ==
    \/ Main
    \/ LoopSideEffects
    \/ LoopAdvance
    \/ FinalSideEffects
    \/ Resume

Spec == Init /\ [][Next]_vars

\* ------------------------------------------------------------------------
\* The scenario final_time = 1.0, checkpoint_interval = 0.25: one run of
\* the program on that configuration, from a fresh App
\* ------------------------------------------------------------------------
ScenarioInit ==
    /\ input = [kind |-> "config", file |-> NoFile, mesh_ok |-> TRUE,
                hydro |-> "relativistic", control |-> ScenarioControl]
    /\ pc = "main"
    /\ state = State_from_model
    /\ tasks = Tasks_new(StartTime, 0)
    /\ control = input.control
    /\ files = <<>>
    /\ now = 0
    /\ oracle = <<>>
    /\ hist = InitHist
    /\ kernel = NoKernel
    /\ probe = NoProbe

ScenarioNext ==
    \/ Main
    \/ LoopSideEffects
    \/ LoopAdvance
    \/ FinalSideEffects

ScenarioSpec == ScenarioInit /\ [][ScenarioNext]_vars

\* ------------------------------------------------------------------------
\* The time-advance engine: the block tasks of one scheme::advance call of
\* `fold` elementary steps, run by a pool of workers.  The array of a block
\* is abstracted to one value.
\* ------------------------------------------------------------------------
NumBlocks == 3
MaxWorkers == 2
MaxFold == 2
MaxValue == 1

Blocks == 1 .. NumBlocks
Values == 0 .. MaxValue

\* the topological neighbours of a block in the lattice (periodic)
LeftOf(b) == IF b = 1 THEN NumBlocks ELSE b - 1
RightOf(b) == IF b = NumBlocks THEN 1 ELSE b + 1

\* a block task that reads the neighbour's array as it is now
GhostValue_live(ghost, sol, b) == sol[b]

\* what a block task sees of block b: the snapshot taken before the step
GhostValue(ghost, sol, b) == ghost[b]

\* the conservative update of one block from its own array and the two
\* neighbours' boundary cells
Update(own, left, right) == (own + left + 2 * right + 1) % (MaxValue + 1)

\* the block task of b, run by some worker
BlockTask(ghost, sol, b) ==
    Update(sol[b], GhostValue(ghost, sol, LeftOf(b)), GhostValue(ghost, sol, RightOf(b)))

KernelInits ==
    [phase : {"ghost"}, sol : [Blocks -> Values], input : {<<>>}, ghost : {<<>>},
     pending : {{}}, running : {{}}, step : {0}, fold : 1 .. MaxFold, pool : 1 .. MaxWorkers]

\* the driver is at rest while the engine's specification runs
DriverAtRest ==
    /\ input = [kind |-> "none", file |-> NoFile, mesh_ok |-> TRUE, hydro |-> "relativistic",
                control |-> ScenarioControl]
    /\ pc = "main"
    /\ state = State_from_model
    /\ tasks = Tasks_new(StartTime, 0)
    /\ control = ScenarioControl
    /\ files = <<>>
    /\ now = 0
    /\ oracle = <<>>
    /\ hist = InitHist

SchemeInit ==
    /\ DriverAtRest
    /\ probe = NoProbe
    /\ \E k \in KernelInits : kernel = [k EXCEPT !.input = k.sol]

\* step 1: the boundary cells of every block are gathered as snapshots
GhostExchange ==
    /\ kernel.phase = "ghost"
    /\ kernel' = [kernel EXCEPT !.phase = "work", !.ghost = kernel.sol, !.pending = Blocks]
    /\ UNCHANGED <<driver, probe>>

\* a free worker takes the task of a block
TaskStart ==
    /\ kernel.phase = "work"
    /\ Cardinality(kernel.running) < kernel.pool
    /\ \E b \in kernel.pending :
        kernel' = [kernel EXCEPT !.pending = @ \ {b}, !.running = @ \cup {b}]
    /\ UNCHANGED <<driver, probe>>

\* a worker completes its task: steps 2 to 4, written to the block's array
TaskFinish ==
    /\ kernel.phase = "work"
    /\ \E b \in kernel.running :
        kernel' = [kernel EXCEPT !.running = @ \ {b},
                                 !.sol[b] = BlockTask(kernel.ghost, kernel.sol, b)]
    /\ UNCHANGED <<driver, probe>>

\* the barrier that closes an elementary step, and step 5
Barrier ==
    /\ kernel.phase = "work"
    /\ kernel.pending = {}
    /\ kernel.running = {}
    /\ kernel' = [kernel EXCEPT !.step = @ + 1,
                                !.phase = IF kernel.step + 1 = kernel.fold THEN "done" ELSE "ghost"]
    /\ UNCHANGED <<driver, probe>>

SchemeNext ==
    \/ GhostExchange
    \/ TaskStart
    \/ TaskFinish
    \/ Barrier

SchemeSpec == SchemeInit /\ [][SchemeNext]_vars

\* ------------------------------------------------------------------------
\* models/jet_in_star.rs: the zones of the JetInStar model.
\* Lengths are counted in units of R0 / 20 and angles in units of PI / 12;
\* a time unit is the time light takes to cover LIGHT_SPEED length units.
\* An f64 is a fraction [num, den] of integers with den > 0, and the
\* engine's four-velocities are those whose Lorentz factor is a fraction
\* too, so that every operation below is exact.
\* ------------------------------------------------------------------------
R0 == 20
Pi == 12
LIGHT_SPEED == 10
MaxR == 25
MaxT == 3
MaxTheta == 7

R3 == (65 * R0) \div 100
R_ENV == (12 * R0) \div 10

Rat(n) == [num |-> n, den |-> 1]
RatAdd(a, b) == [num |-> a.num * b.den + b.num * a.den, den |-> a.den * b.den]
RatMul(a, b) == [num |-> a.num * b.num, den |-> a.den * b.den]
RatDiv(a, b) ==
    IF b.num > 0
    THEN [num |-> a.num * b.den, den |-> a.den * b.num]
    ELSE [num |-> (0 - a.num) * b.den, den |-> a.den * (0 - b.num)]
RatLess(a, b) == a.num * b.den < b.num * a.den
RatEq(a, b) == a.num * b.den = b.num * a.den
Isqrt(n) == CHOOSE h \in 0 .. n : h * h = n
RatSqrt(a) == [num |-> Isqrt(a.num), den |-> Isqrt(a.den)]

\* the JetInStar structs sampled: engine_theta and engine_u
EngineUs ==
    {Rat(0), [num |-> 3, den |-> 4], [num |-> 4, den |-> 3], [num |-> 0 - 3, den |-> 4]}
JetInStars == [engine_theta : 0 .. MaxTheta, engine_u : EngineUs]
Radii == (0 - 1) .. MaxR
Angles == 0 .. Pi
Zones == {"Core", "Envelope", "Wind", "Jet"}

\* engine_beta: engine_u / sqrt(1 + engine_u^2)
engine_beta(self) ==
    RatDiv(self.engine_u, RatSqrt(RatAdd(Rat(1), RatMul(self.engine_u, self.engine_u))))

\* in_nozzle: within engine_theta of either pole
in_nozzle(self, q) == q < self.engine_theta \/ q > Pi - self.engine_theta

\* get_jet_head: the radius the jet has reached at time t
get_jet_head(self, t) ==
    LET v_jet == RatMul(engine_beta(self), Rat(LIGHT_SPEED))
    IN  RatMul(v_jet, Rat(t))

\* zone with a jet that includes its head
zone_head_inclusive(self, r, q, t) ==
    LET v_jet == RatMul(engine_beta(self), Rat(LIGHT_SPEED))
        r_jet_head == RatMul(v_jet, Rat(t))
    IN  IF in_nozzle(self, q) /\ ~RatLess(r_jet_head, Rat(r)) THEN "Jet"
        ELSE IF r < R3 THEN "Core"
        ELSE IF R3 < r /\ r < R_ENV THEN "Envelope"
        ELSE "Wind"

\* zone: the zone of the point (r, q) at time t
zone(self, r, q, t) ==
    LET v_jet == RatMul(engine_beta(self), Rat(LIGHT_SPEED))
        r_jet_head == RatMul(v_jet, Rat(t))
    IN  IF in_nozzle(self, q) /\ RatLess(Rat(r), r_jet_head) THEN "Jet"
        ELSE IF r < R3 THEN "Core"
        ELSE IF R3 < r /\ r < R_ENV THEN "Envelope"
        ELSE "Wind"

\* gamma_beta: the radial four-velocity
gamma_beta(self, r, q, t) ==
    IF zone(self, r, q, t) = "Jet" THEN self.engine_u ELSE Rat(0)

\* a point of the mesh and a model, not yet sampled
ProbeInits ==
    [phase : {"input"}, self : JetInStars, r : Radii, q : Angles, t : {0},
     zone : {"none"}, velocity_r : {Rat(0)}]

JetInit ==
    /\ DriverAtRest
    /\ kernel = NoKernel
    /\ probe \in ProbeInits

\* primitive_at and scalar_at: the model is sampled at the point
Sample ==
    /\ probe.phase = "input"
    /\ probe' = [probe EXCEPT !.phase = "sampled",
                              !.zone = zone(probe.self, probe.r, probe.q, probe.t),
                              !.velocity_r = gamma_beta(probe.self, probe.r, probe.q, probe.t)]
    /\ UNCHANGED <<driver, kernel>>

\* the same point is sampled again at a later time
Tick ==
    /\ probe.phase = "sampled"
    /\ probe.t < MaxT
    /\ probe' = [probe EXCEPT !.phase = "input", !.t = @ + 1]
    /\ UNCHANGED <<driver, kernel>>

JetNext ==
    \/ Sample
    \/ Tick

JetSpec == JetInit /\ [][JetNext]_vars

\* ------------------------------------------------------------------------
\* Properties
\* ------------------------------------------------------------------------
Recurring == {"write_checkpoint", "write_products"}

\* the interval each task is advanced with in side_effects
IntervalOf(n) ==
    IF n = "write_checkpoint" THEN control.checkpoint_interval
    ELSE IF n = "write_products" THEN control.products_interval
    ELSE 0

\* how many of the values start, start + interval, ... are <= t (interval > 0)
ScheduledReached(start, interval, t) ==
    IF t < start THEN 0 ELSE (t - start) \div interval + 1

\* a side_effects call has just returned Ok
AfterCheck == pc \in {"advance", "done"}

\* C1, as stated: after every check, each recurring task has fired as many
\* times as there are scheduled values start + k * interval that state.time
\* has reached.
C1_FiresOncePerScheduledValue ==
    \A n \in Recurring :
        (AfterCheck /\ IntervalOf(n) > 0)
            => tasks[n].count = ScheduledReached(StartTime, IntervalOf(n), state.time)

\* C1, amended: a recurring task with a positive interval never fires more
\* often than there are scheduled values that state.time has reached, and
\* after every check it has fired exactly that often provided no time step
\* was longer than the interval.
C1_FiresOncePerCheck ==
    \A n \in Recurring :
        IntervalOf(n) > 0 =>
            /\ tasks[n].count <= ScheduledReached(StartTime, IntervalOf(n), state.time)
            /\ (AfterCheck /\ hist.max_step <= IntervalOf(n))
                  => tasks[n].count = ScheduledReached(StartTime, IntervalOf(n), state.time)

\* a run of steps not longer than the interval, ending off the schedule,
\* in which the checkpoint task has fired three times
C1_Witness ==
    /\ pc = "done"
    /\ control.checkpoint_interval = 2
    /\ hist.max_step = 2
    /\ state.time = MaxFinal + 1
    /\ tasks["write_checkpoint"].count = 3

\* the checkpoint events of a log, in order
RECURSIVE Checkpoints(_)
Checkpoints(events) ==
    IF events = <<>> THEN <<>>
    ELSE IF Head(events).kind = "chkpt"
         THEN <<Head(events)>> \o Checkpoints(Tail(events))
         ELSE Checkpoints(Tail(events))

ScenarioRunDone == pc = "done" /\ ~hist.resumed /\ control = ScenarioControl

\* C2, as stated: in the scenario every complete run writes exactly 5
\* checkpoints, at the simulated times 0, 0.25, 0.5, 0.75 and 1.0.
C2_FiveCheckpointsOnSchedule ==
    ScenarioRunDone =>
        LET cks == Checkpoints(hist.events)
        IN  /\ Len(cks) = 5
            /\ \A k \in 1 .. Len(cks) :
                  cks[k].time = (k - 1) * ScenarioControl.checkpoint_interval

\* C2, amended: in the scenario every complete run whose steps are not
\* longer than 0.25 writes exactly 5 checkpoints, with the indices 0 .. 4;
\* the k-th is written at a state whose time is at least 0.25 * (k - 1) and
\* less than 0.25 * k.
C2_FiveCheckpointsWithinInterval ==
    (ScenarioRunDone /\ hist.max_step <= ScenarioControl.checkpoint_interval) =>
        LET cks == Checkpoints(hist.events)
        IN  /\ Len(cks) = 5
            /\ \A k \in 1 .. Len(cks) :
                  /\ cks[k].index = k - 1
                  /\ cks[k].time >= (k - 1) * ScenarioControl.checkpoint_interval
                  /\ cks[k].time < k * ScenarioControl.checkpoint_interval

\* a complete scenario run with short steps that wrote a checkpoint off
\* the schedule
C2_Witness ==
    /\ ScenarioRunDone
    /\ hist.max_step <= ScenarioControl.checkpoint_interval
    /\ \E k \in 1 .. Len(hist.events) :
          /\ hist.events[k].kind = "chkpt"
          /\ hist.events[k].time % ScenarioControl.checkpoint_interval # 0

\* C3: once a scheduler step (scheme::advance) made by the run loop has
\* failed, the run is over: side_effects is never called on the state the
\* failed step left behind.
C3_FailedStepNeverObserved == ~hist.observed_failed

\* a step of the run loop that is a call of scheme::advance
AdvanceStep == pc = "advance" /\ pc' # "advance"

\* C4: a step whose computed step size is zero or negative is fatal: the
\* run aborts instead of going round the loop again with state.time below
\* final_time.
C4_ZeroStepIsFatal ==
    [][(AdvanceStep /\ oracle'[state].kind = "zero_dt") => pc' = "aborted"]_vars

\* a step of the run loop that is a call of side_effects
SideEffectsStep == pc = "loop" /\ pc' # "loop"

\* C5: within a process the next_time of every task never decreases, and
\* no task is found due twice at the same state.time without an advance of
\* that task in between (its count is the same at both checks).
C5_NextTimeMonotone ==
    [][/\ pc # "main" => \A n \in TaskNames : tasks'[n].next_time >= tasks[n].next_time
       /\ ~hist'.due_twice]_vars

\* what one side_effects step did to task n
Fired(n) ==
    /\ tasks'[n].count = tasks[n].count + 1
    /\ tasks'[n].count_this_run = tasks[n].count_this_run + 1
NotFired(n) == tasks'[n] = tasks[n]
DueAtCall(n) == tasks[n].next_time <= state.time
Wrote(kind) ==
    \E i \in Len(hist.events) + 1 .. Len(hist'.events) : hist'.events[i].kind = kind
Performed(n) ==
    IF n = "iteration_message" THEN hist'.printed = hist.printed + 1
    ELSE IF n = "write_checkpoint" THEN Wrote("chkpt")
    ELSE Wrote("prods")
CheckedTasks == {"iteration_message", "write_checkpoint", "write_products"}

\* C6, as stated: in one side_effects call each task fires (its advance is
\* called and its effect performed) if and only if its next_time is at most
\* state.time at that call, whatever the other tasks do.
C6_FiresIffDue ==
    [][SideEffectsStep =>
        \A n \in CheckedTasks : (Fired(n) /\ Performed(n)) <=> DueAtCall(n)]_vars

\* C6, amended: in one side_effects call every task is advanced at most
\* once; the iteration message and the checkpoint task are advanced if and
\* only if they are due at that call, and the products task if and only if
\* it is due and the checkpoint write has not failed.  In a call that
\* returns Ok the checkpoint and the products file are written if and only
\* if their task is due, each whatever the other does; the message is
\* printed if and only if its task is due and has fired before in this
\* process.
C6_FiresIffDueAndReached ==
    [][SideEffectsStep =>
        /\ \A n \in TaskNames : Fired(n) \/ NotFired(n)
        /\ NotFired("report_progress")
        /\ Fired("iteration_message") <=> DueAtCall("iteration_message")
        /\ Fired("write_checkpoint") <=> DueAtCall("write_checkpoint")
        /\ Fired("write_products") <=>
              /\ DueAtCall("write_products")
              /\ ~(Fired("write_checkpoint") /\ ~Performed("write_checkpoint"))
        /\ pc' # "aborted" =>
              \A n \in Recurring : Performed(n) <=> DueAtCall(n)
        /\ Performed("iteration_message") <=>
              /\ DueAtCall("iteration_message")
              /\ tasks["iteration_message"].count_this_run >= 1]_vars

\* a call that returned Ok in which the products task fired, the
\* checkpoint task did not, and the message was printed
C6_Witness ==
    /\ pc = "advance"
    /\ hist.printed > 0
    /\ Len(hist.events) = 3
    /\ hist.events[3].kind = "prods"
    /\ hist.events[2].kind = "prods"
    /\ hist.events[3].time > hist.events[2].time

\* C7: an advance of a task adds 1 to count and to count_this_run, adds the
\* task's interval to next_time and sets last_performed to the current
\* instant; a step changes no field of a task it does not advance.  Created
\* with start time 0, a task advanced k times with interval 0.25 has
\* next_time 0.25 * k.
C7_AdvanceEffect ==
    [][/\ pc # "main" =>
            \A n \in TaskNames :
                \/ tasks'[n] = tasks[n]
                \/ /\ tasks'[n].count = tasks[n].count + 1
                   /\ tasks'[n].count_this_run = tasks[n].count_this_run + 1
                   /\ tasks'[n].next_time = tasks[n].next_time + IntervalOf(n)
                   /\ tasks'[n].last_performed = now'
                   /\ now' > tasks[n].last_performed
       /\ \A n \in TaskNames :
            tasks'[n].next_time = StartTime + tasks'[n].count * IntervalOf(n)']_vars

\* three advances with interval 0.25 from start time 0: next_time is 0.75
C7_Witness ==
    /\ control.checkpoint_interval = 2
    /\ tasks["write_checkpoint"].count = 3
    /\ tasks["write_checkpoint"].next_time = 6
    /\ tasks["write_products"].count < 3

\* the events of a log that follow the writing of file f
RECURSIVE After(_, _)
After(events, f) ==
    IF events = <<>> THEN <<>>
    ELSE IF Head(events).kind = f.kind /\ Head(events).index = f.index
         THEN Tail(events)
         ELSE After(Tail(events), f)

IsPrefix(a, b) == Len(a) <= Len(b) /\ \A i \in 1 .. Len(a) : a[i] = b[i]

\* this process was started from an intact checkpoint file and is in run
ResumedFromCheckpoint ==
    /\ hist.resumed
    /\ pc \in {"loop", "advance", "done", "aborted"}
    /\ input.kind = "pk"
    /\ input.file \in DOMAIN files
    /\ files[input.file].type = "app"

\* the resumed process has not written the checkpoint it was started from
NeverRewritten ==
    \A i \in 1 .. Len(hist.events) :
        ~(hist.events[i].kind = "chkpt" /\ hist.events[i].index = input.file.index)

\* the resumed process writes what the first process wrote after the
\* checkpoint, as far as both have come, and never the checkpoint itself
ContinuesAsOriginal ==
    LET suffix == After(hist.orig_events, input.file)
    IN  /\ IsPrefix(hist.events, suffix) \/ IsPrefix(suffix, hist.events)
        /\ (pc = "done" /\ hist.orig_done) => hist.events = suffix
        /\ NeverRewritten

\* C8, as stated: a run resumed from any checkpoint file performs the same
\* checkpoint and products events, same indices at the same simulated
\* times, as the first run performed after writing that checkpoint, and
\* does not write that checkpoint again.
C8_ResumeContinues == ResumedFromCheckpoint => ContinuesAsOriginal

\* the checkpoint task was no longer due when the checkpoint was packaged
NotStillDue(content) == content.tasks["write_checkpoint"].next_time > content.state.time

\* C8, amended: a run resumed from a checkpoint file never writes that
\* checkpoint again, and if the checkpoint task is no longer due in the
\* file (its next_time exceeds the stored state.time) the run performs the
\* same checkpoint and products events as the first run performed after
\* writing that checkpoint.
C8_ResumeContinuesWhenNotDue ==
    ResumedFromCheckpoint =>
        /\ NeverRewritten
        /\ NotStillDue(files[input.file]) => ContinuesAsOriginal

\* a resumed run that went to completion, as the first run had, and
\* wrote a products file at the time of the checkpoint and files after it
C8_Witness ==
    /\ ResumedFromCheckpoint
    /\ NotStillDue(files[input.file])
    /\ pc = "done"
    /\ hist.orig_done
    /\ Len(hist.events) >= 3
    /\ hist.events[1].kind = "prods"
    /\ hist.events[1].time = files[input.file].state.time
    /\ input.file.index > 0

\* C9: when the mesh geometry can not be built or the configured system is
\* Euler, the program ends with an error at startup: neither side_effects
\* nor scheme::advance is ever called.
C9_ConfigurationErrorIsFatal ==
    (input.kind = "config" /\ (~input.mesh_ok \/ input.hydro = "euler")) =>
        /\ pc \in {"main", "aborted"}
        /\ hist.calls = 0
        /\ hist.advances = 0
        /\ files = <<>>

\* startup has failed on a configuration with a good mesh and the Euler
\* system
C9_Witness ==
    /\ pc = "aborted"
    /\ input.kind = "config"
    /\ input.mesh_ok
    /\ input.hydro = "euler"

\* C10: a side_effects call leaves state.iteration, state.time and
\* state.solution as they are, whether it returns Ok or an error, and a
\* checkpoint written by the call holds exactly that state.
C10_SideEffectsKeepState ==
    [][SideEffectsStep =>
        /\ state' = state
        /\ \A f \in DOMAIN files' :
              (/\ files'[f].type = "app"
               /\ (f \notin DOMAIN files \/ files[f] # files'[f]))
                  => files'[f].state = state]_vars

\* a checkpoint holding a state that steps have changed, written by a call
\* whose products write then failed
C10_Witness ==
    /\ pc = "aborted"
    /\ hist.calls = 2
    /\ Len(hist.events) = 3
    /\ hist.events[3].kind = "chkpt"
    /\ files[[kind |-> "chkpt", index |-> 1]].type = "app"
    /\ files[[kind |-> "chkpt", index |-> 1]].state = state
    /\ state.iteration = 1

\* one elementary step done block after block, each from the state before
\* the step
SequentialStep(sol) ==
    [b \in Blocks |-> Update(sol[b], sol[LeftOf(b)], sol[RightOf(b)])]

RECURSIVE SequentialSteps(_, _)
SequentialSteps(sol, k) ==
    IF k = 0 THEN sol ELSE SequentialStep(SequentialSteps(sol, k - 1))

\* C11: whatever the order in which the workers take and complete the
\* block tasks and whatever the size of the pool, a block that has not
\* completed its task of the current step holds the value the steps before
\* gave it, a block that has completed it holds the value of the step, and
\* once the barrier is passed the state is the one the steps computed from
\* the input alone.
C11_AdvanceIsDeterministic ==
    kernel.phase # "off" =>
        LET before == SequentialSteps(kernel.input, kernel.step)
        IN  IF kernel.phase = "work"
            THEN \A b \in Blocks :
                    kernel.sol[b] =
                        IF b \in kernel.pending \cup kernel.running
                        THEN before[b]
                        ELSE SequentialStep(before)[b]
            ELSE kernel.sol = before

\* two workers, both busy while another block is already updated, in the
\* second step of a call
C11_Witness ==
    /\ kernel.phase = "work"
    /\ kernel.step = 1
    /\ kernel.pool = 2
    /\ Cardinality(kernel.running) = 2
    /\ kernel.pending = {}
    /\ kernel.sol # kernel.ghost

\* the events of one kind of a log, in order
RECURSIVE EventsOf(_, _)
EventsOf(events, kind) ==
    IF events = <<>> THEN <<>>
    ELSE IF Head(events).kind = kind
         THEN <<Head(events)>> \o EventsOf(Tail(events), kind)
         ELSE EventsOf(Tail(events), kind)

\* C12: in a run started from a fresh App the n-th checkpoint written has
\* the index n - 1 and the n-th products file written has the index n - 1:
\* the indices are 0, 1, 2, ... in order, none is skipped and none is used
\* twice.
C12_IndicesInOrder ==
    ~hist.resumed =>
        \A kind \in {"chkpt", "prods"} :
            LET es == EventsOf(hist.events, kind)
            IN  \A n \in 1 .. Len(es) : es[n].index = n - 1

\* a fresh run that has written three checkpoints and two products files
C12_Witness ==
    /\ ~hist.resumed
    /\ Len(EventsOf(hist.events, "chkpt")) = 3
    /\ Len(EventsOf(hist.events, "prods")) = 2
    /\ [kind |-> "chkpt", index |-> 2] \in DOMAIN files

\* the state run was entered with
EntryState ==
    IF input.kind = "pk" THEN files[input.file].state ELSE State_from_model

InRun == pc \in {"loop", "advance", "done"}

\* C13: every state the run passes through is checked for due tasks
\* exactly once, before it is advanced: the first state checked is the one
\* run was entered with, side_effects has run on the current state whenever
\* scheme::advance is about to be called and when run returns, which it
\* does at a state with time >= final_time, and no state is checked twice.
C13_EveryStateCheckedOnce ==
    InRun =>
        LET cs == hist.checked
        IN  /\ \A i, j \in 1 .. Len(cs) : cs[i] = cs[j] => i = j
            /\ Len(cs) > 0 => cs[1] = EntryState
            /\ pc \in {"advance", "done"} => (Len(cs) > 0 /\ cs[Len(cs)] = state)
            /\ pc = "loop" => Len(cs) = hist.advances
            /\ pc = "done" => state.time >= control.final_time

\* a side_effects call in which a file could not be created or written
IoFailed == SideEffectsStep /\ hist'.lost # {}
CheckpointFailed == SideEffectsStep /\ "write_checkpoint" \in hist'.lost

\* C14: when creating or writing a checkpoint or products file fails inside
\* side_effects, the error leaves run: a failed checkpoint write is followed
\* by no products task in that call (the task is not advanced, no products
\* file is touched), every failed call ends the run, and once the run has
\* ended this process calls neither scheme::advance nor side_effects again
\* and changes no file, task or state.
C14_IoErrorPropagates ==
    [][/\ IoFailed => pc' = "aborted"
       /\ CheckpointFailed =>
            /\ NotFired("write_products")
            /\ ~Wrote("prods")
            /\ \A f \in DOMAIN files' : f.kind = "prods" =>
                    (f \in DOMAIN files /\ files'[f] = files[f])
       /\ pc = "aborted" =>
            /\ pc' = "main" /\ hist'.resumed
            /\ state' = state /\ tasks' = tasks /\ files' = files
            /\ hist'.advances = 0 /\ hist'.calls = 0]_vars

\* C15: the iteration message task is advanced with interval 0, so its
\* next_time stays at the start time and it is due at every check of a
\* run; count_this_run counts the side_effects calls of this process, and
\* the message has been printed at every call of the process but the first.
\* A process resumed from a checkpoint starts with count_this_run = 0, so
\* its first call prints nothing either.
C15_MessageAtEveryCallButFirst ==
    LET msg == tasks["iteration_message"]
    IN  /\ msg.next_time = StartTime
        /\ InRun => IsDue(msg, state)
        /\ (pc = "loop" /\ hist.calls = 0) => msg.count_this_run = 0
        /\ hist.calls > 0 => msg.count_this_run = hist.calls
        /\ hist.printed = IF hist.calls = 0 THEN 0 ELSE hist.calls - 1

\* a process resumed from a checkpoint that has made two side_effects calls
\* and printed one message; the task's count carries on from the file
C15_Witness ==
    /\ hist.resumed
    /\ InRun
    /\ hist.calls = 2
    /\ hist.printed = 1
    /\ tasks["iteration_message"].count > tasks["iteration_message"].count_this_run

\* the probe holds a sample of a point outside the jet
SampledAmbient == probe.zone \in {"Core", "Envelope", "Wind"} /\ probe.phase = "sampled"

\* C16: a point that is not in the jet is given its zone by nested radial
\* shells: Core for r < R3, Envelope for every r from R3 up to R_ENV, and
\* Wind only for r >= R_ENV.
C16_AmbientShells ==
    SampledAmbient =>
        /\ probe.zone = "Core" <=> probe.r < R3
        /\ probe.zone = "Envelope" <=> (R3 <= probe.r /\ probe.r < R_ENV)
        /\ probe.zone = "Wind" <=> probe.r >= R_ENV

\* the probe holds a sample
Sampled == probe.phase = "sampled" /\ probe.zone \in Zones

\* the sample agrees with the jet as the claim describes it
JetAsClaimed ==
    /\ probe.zone = "Jet" <=>
            (in_nozzle(probe.self, probe.q)
             /\ RatLess(Rat(probe.r), get_jet_head(probe.self, probe.t)))
    /\ (probe.t = 0 /\ probe.r >= 0) => probe.zone # "Jet"
    /\ probe.zone = "Jet" => probe.velocity_r = probe.self.engine_u
    /\ probe.zone # "Jet" => probe.velocity_r = Rat(0)
    /\ (probe.t = 0 /\ probe.r >= 0) => probe.velocity_r = Rat(0)

\* C17: for engine_u > 0 the Jet zone is exactly the points with
\* in_nozzle(q) and r < engine_beta * c * t; it is empty at t = 0 for every
\* r >= 0, where the radial four-velocity is 0; a point found in the Jet
\* zone is found there again at every later time; and gamma_beta is
\* engine_u on the Jet zone and 0 elsewhere.
C17_JetZone ==
    [][(Sampled' /\ RatLess(Rat(0), probe'.self.engine_u)) =>
        /\ JetAsClaimed'
        /\ probe.zone = "Jet" => probe'.zone = "Jet"]_vars

\* a point in the nozzle, beyond R3, that the jet of a model with
\* engine_u > 0 has reached after the start: it was outside the jet at the
\* sample before
C17_Witness ==
    /\ probe.phase = "sampled"
    /\ probe.zone = "Jet"
    /\ probe.t = 2
    /\ probe.r > R3
    /\ RatLess(Rat(0), probe.self.engine_u)
    /\ ~RatLess(Rat(probe.r), get_jet_head(probe.self, 1))
    /\ probe.velocity_r = probe.self.engine_u

====
